---- MODULE Spec2Model ----
(***************************************************************************)
(* Model of argument.go of densestvoid/argparse: one option definition     *)
(* (type arg) with its matcher (check), consumer (reduce), binder (parse)  *)
(* and default applier (setDefault), acting on a token sequence and on the *)
(* definition's result slot.                                               *)
(*                                                                         *)
(* A Go string is a sequence of one-character strings: "-ab" is            *)
(* <<"-", "a", "b">> and "" is <<>>.                                       *)
(***************************************************************************)
EXTENDS Integers, Sequences, FiniteSets, TLC

VARIABLES o, parsed, result, args, origArgs, exited, last, call, nfd, closed,
          succeeded

vars == <<o, parsed, result, args, origArgs, exited, last, call, nfd, closed,
          succeeded>>

(***************************************************************************)
(* Bounds of the model.                                                    *)
(***************************************************************************)
\* number of tokens of the scanned sequence
NumArgs == 2
\* total number of characters of the scanned sequence
MaxChars == 4
\* largest occurrence count handed to parse, and longest run of one flag
MaxCount == 2
\* most value tokens handed to one parse call
MaxValues == 2
\* longest list a list slot grows to
MaxList == 2
\* largest value a counter slot grows to
MaxInt == 3
\* most file handles opened in one run
MaxFiles == 2
\* longest list of file names given as a default
MaxDefault == 2

(***************************************************************************)
(* The strings package, as far as argument.go uses it.                     *)
(***************************************************************************)
Dash == "-"

\* strings.HasPrefix(s, prefix)
HasPrefix(s, prefix) ==
    Len(s) >= Len(prefix) /\ SubSeq(s, 1, Len(prefix)) = prefix

\* s[n:] of Go (n counted from 0)
From(s, n) == SubSeq(s, n + 1, Len(s))

\* strings.Count(s, substr): non-overlapping instances of substr in s
RECURSIVE Count(_, _)
Count(s, substr) ==
    IF substr = <<>> THEN Len(s) + 1
    ELSE IF Len(s) < Len(substr) THEN 0
    ELSE IF HasPrefix(s, substr)
         THEN 1 + Count(From(s, Len(substr)), substr)
         ELSE Count(Tail(s), substr)

\* strings.Contains(s, substr)
Contains(s, substr) ==
    \E i \in 0..(Len(s) - Len(substr)) : HasPrefix(From(s, i), substr)

\* strings.Replace(s, old, "", -1): s with every non-overlapping instance of
\* old removed, scanning from the left
RECURSIVE Remove(_, _)
Remove(s, old) ==
    IF old = <<>> \/ Len(s) < Len(old) THEN s
    ELSE IF HasPrefix(s, old)
         THEN Remove(From(s, Len(old)), old)
         ELSE <<Head(s)>> \o Remove(Tail(s), old)

(***************************************************************************)
(* arg.check and arg.reduce                                                *)
(***************************************************************************)
HelpShort == <<"-", "h">>
HelpLong == <<"-", "-", "h", "e", "l", "p">>

\* the "shortcut to showing help" of check (line 51)
IsHelp(argument) == argument = HelpShort \/ argument = HelpLong

\* "begins with -- and next is not -": the long-name test of check and reduce
LongMatch(d, argument) ==
    /\ d.lname # <<>>
    /\ Len(argument) > 2
    /\ HasPrefix(argument, <<Dash, Dash>>)
    /\ argument[3] # Dash
    /\ From(argument, 2) = d.lname

\* "begins with - and next is not -": the short-name test of check and reduce
ShortForm(d, argument) ==
    /\ d.sname # <<>>
    /\ Len(argument) > 1
    /\ HasPrefix(argument, <<Dash>>)
    /\ argument[2] # Dash

\* what check returns when it does not return: os.Exit(0) after the help text
HelpExit == -1

\* check with size == 1 returning 1 for any match instead of the count
checkNoCount(d, argument) ==
    IF IsHelp(argument) THEN HelpExit
    ELSE IF LongMatch(d, argument) THEN 1
    ELSE IF ShortForm(d, argument)
         THEN IF d.size = 1
              THEN (IF Contains(From(argument, 1), d.sname) THEN 1 ELSE 0)
              ELSE (IF From(argument, 1) = d.sname THEN 1 ELSE 0)
         ELSE 0

\* arg.check: the number of occurrences, or HelpExit
check(d, argument) ==
    IF IsHelp(argument) THEN HelpExit
    ELSE IF LongMatch(d, argument) THEN 1
    ELSE IF ShortForm(d, argument)
         THEN IF d.size = 1
              THEN Count(From(argument, 1), d.sname)
              ELSE (IF From(argument, 1) = d.sname THEN 1 ELSE 0)
         ELSE 0

\* the loop "for i := position; i < position+o.size; i++ { (*args)[i] = "" }"
\* as far as it gets: an index past the end panics after the earlier writes
Blank(a, position, size) ==
    [i \in 1..Len(a) |->
        IF i >= position /\ i < position + size THEN <<>> ELSE a[i]]

\* whether that loop indexes past the end of the sequence
Overruns(a, position, size) == position + size - 1 > Len(a)

\* the size == 1 branch of reduce (lines 104-109)
Strip(d, a, position, argument) ==
    IF Contains(From(argument, 1), d.sname)
    THEN LET t == Remove(argument, d.sname)
         IN  [a EXCEPT ![position] = IF t = <<Dash>> THEN <<>> ELSE t]
    ELSE a

\* arg.reduce: the token sequence it leaves (position counted from 1)
reduce(d, position, a) ==
    LET argument == a[position]
        a1 == IF LongMatch(d, argument) THEN Blank(a, position, d.size) ELSE a
    IN  IF ShortForm(d, argument)
        THEN IF d.size = 1
             THEN Strip(d, a1, position, argument)
             ELSE IF From(argument, 1) = d.sname
                  THEN Blank(a1, position, d.size)
                  ELSE a1
        ELSE a1

\* whether reduce panics with an index out of range
reducePanics(d, position, a) ==
    LET argument == a[position]
    IN  /\ Overruns(a, position, d.size)
        /\ \/ LongMatch(d, argument)
           \/ ShortForm(d, argument) /\ d.size # 1 /\ From(argument, 1) = d.sname

(***************************************************************************)
(* strconv.Atoi and strconv.ParseFloat on the characters the model uses.   *)
(* A float64 is the pair <<m, k>> standing for m / 10^k, with k minimal.   *)
(***************************************************************************)
IsDigit(c) == c \in {"0", "1"}

DigitVal(c) == IF c = "1" THEN 1 ELSE 0

\* the value of a string of digits
RECURSIVE Decimal(_)
Decimal(s) ==
    IF s = <<>> THEN 0
    ELSE 10 * Decimal(SubSeq(s, 1, Len(s) - 1)) + DigitVal(s[Len(s)])

IsSigned(s) == s # <<>> /\ s[1] \in {"-", "+"}

Unsigned(s) == IF IsSigned(s) THEN Tail(s) ELSE s

Sign(s) == IF IsSigned(s) /\ s[1] = "-" THEN -1 ELSE 1

\* strconv.Atoi(s): [ok, val]; ok is FALSE when Atoi returns an error
Atoi(s) ==
    LET body == Unsigned(s)
    IN  IF body # <<>> /\ \A i \in 1..Len(body) : IsDigit(body[i])
        THEN [ok |-> TRUE, val |-> Sign(s) * Decimal(body)]
        ELSE [ok |-> FALSE, val |-> 0]

\* m / 10^k with the trailing zeros of the fraction dropped
RECURSIVE Norm(_, _)
Norm(m, k) ==
    IF k > 0 /\ m % 10 = 0 THEN Norm(m \div 10, k - 1) ELSE <<m, k>>

\* strconv.ParseFloat(s, 64) on decimal notation: [ok, val]
ParseFloat(s) ==
    LET body == Unsigned(s)
        dots == {i \in 1..Len(body) : body[i] = "."}
        digits == SelectSeq(body, IsDigit)
        wellFormed ==
            /\ digits # <<>>
            /\ Cardinality(dots) <= 1
            /\ \A i \in 1..Len(body) : IsDigit(body[i]) \/ body[i] = "."
        scale == IF dots = {} THEN 0 ELSE Len(body) - (CHOOSE i \in dots : TRUE)
    IN  IF wellFormed
        THEN [ok |-> TRUE, val |-> Norm(Sign(s) * Decimal(digits), scale)]
        ELSE [ok |-> FALSE, val |-> <<0, 0>>]

(***************************************************************************)
(* arg.parse.  A call works on st = [result, parsed, nfd, closed] (the     *)
(* result slot, the parsed flag, the number of files opened so far and the *)
(* handles Close was called on) and returns that record with err, exit,    *)
(* opened (the handles the call opened) and failed (the handles whose      *)
(* Close returned an error in the call) added.  The environment of a call  *)
(* is env = [reject, opens, closeFail]: whether opts.Validate returns an   *)
(* error, how many of the call's os.OpenFile calls succeed before one      *)
(* fails, and the handles whose Close returns an error.                    *)
(***************************************************************************)
NoErr == [kind |-> "nil", errs |-> <<>>]

Error(kind) == [kind |-> kind, errs |-> <<>>]

Range(s) == {s[i] : i \in 1..Len(s)}

\* "return err": nothing written
Return(st, err) ==
    [result |-> st.result, parsed |-> st.parsed, nfd |-> st.nfd,
     closed |-> st.closed, err |-> err, exit |-> FALSE, opened |-> {},
     failed |-> {}]

\* Bind without "o.parsed = true"
BindUnmarked(st, v) == [Return(st, NoErr) EXCEPT !.result = v]

\* "*o.result = v; o.parsed = true" and the final "return nil"
Bind(st, v) == [Return(st, NoErr) EXCEPT !.result = v, !.parsed = TRUE]

\* os.Exit(0) after the help text
Exit(st) == [Return(st, NoErr) EXCEPT !.exit = TRUE]

\* a successful os.OpenFile: the next handle
Open(st) == st.nfd + 1

\* Bind of a value that holds the handle just opened
BindOpened(st, v) ==
    [Bind(st, v) EXCEPT !.nfd = Open(st), !.opened = {Open(st)}]

\* the test of line 124 without o.parsed
duplicateInOneToken(d, isParsed, argCount) == d.unique /\ argCount > 1

\* the test of line 124
duplicate(d, isParsed, argCount) == d.unique /\ (isParsed \/ argCount > 1)

\* the tests with len(args) > 2 for len(args) > 1
arityOffByOne(n) == IF n < 1 THEN "few" ELSE IF n > 2 THEN "many" ELSE "one"

\* the tests len(args) < 1 and len(args) > 1 of the one-value types
arity(n) == IF n < 1 THEN "few" ELSE IF n > 1 THEN "many" ELSE "one"

ArityError(n) ==
    IF arity(n) = "few" THEN Error("must be followed by")
    ELSE Error("followed by too many arguments")

\* the failure branch with the loop stopping at the first Close that fails
rollbackFirstError(st, env) ==
    LET Fails(h) == h \in env.closeFail
        stop == IF \E i \in 1..Len(st.result) : Fails(st.result[i])
                THEN CHOOSE i \in 1..Len(st.result) :
                        Fails(st.result[i]) /\ \A j \in 1..(i - 1) : ~Fails(st.result[j])
                ELSE Len(st.result)
        done == SubSeq(st.result, 1, stop)
    IN  [Return(st, [kind |-> "open", errs |-> SelectSeq(done, Fails)])
            EXCEPT !.result = <<>>,
                   !.closed = st.closed \cup Range(done),
                   !.failed = Range(done) \cap env.closeFail]

\* the failure branch of the *[]os.File case (lines 262-276): Close on every
\* handle of the slot, the slot emptied, the errors collected
rollback(st, env) ==
    LET Fails(h) == h \in env.closeFail
    IN  [Return(st, [kind |-> "open", errs |-> SelectSeq(st.result, Fails)])
            EXCEPT !.result = <<>>,
                   !.closed = st.closed \cup Range(st.result),
                   !.failed = Range(st.result) \cap env.closeFail]

\* case *bool (lines 142-144)
parseBool(d, st, a, argCount, env) == Bind(st, TRUE)

\* case *int (lines 146-164)
parseInt(d, st, a, argCount, env) ==
    IF Len(a) < 1
    THEN IF d.size > 1
         THEN Return(st, Error("must be followed by"))
         ELSE Bind(st, st.result + argCount)
    ELSE IF Len(a) > 1
    THEN Return(st, Error("followed by too many arguments"))
    ELSE IF Atoi(a[1]).ok
         THEN Bind(st, Atoi(a[1]).val)
         ELSE Return(st, Error("bad integer value"))

\* case *float64 (lines 166-178)
parseFloat(d, st, a, argCount, env) ==
    IF arity(Len(a)) # "one" THEN Return(st, ArityError(Len(a)))
    ELSE IF ParseFloat(a[1]).ok
         THEN Bind(st, ParseFloat(a[1]).val)
         ELSE Return(st, Error("bad floating point value"))

\* case *string, with the selector (lines 180-200)
parseString(d, st, a, argCount, env) ==
    IF arity(Len(a)) # "one" THEN Return(st, ArityError(Len(a)))
    ELSE IF d.selector # {} /\ a[1] \notin d.selector
         THEN Return(st, Error("bad value"))
         ELSE Bind(st, a[1])

\* case *os.File (lines 202-214)
parseFile(d, st, a, argCount, env) ==
    IF arity(Len(a)) # "one" THEN Return(st, ArityError(Len(a)))
    ELSE IF env.opens < 1
         THEN Return(st, Error("open"))
         ELSE BindOpened(st, Open(st))

\* case *[]string (lines 216-224)
parseStrings(d, st, a, argCount, env) ==
    IF arity(Len(a)) # "one" THEN Return(st, ArityError(Len(a)))
    ELSE Bind(st, Append(st.result, a[1]))

\* case *[]int (lines 226-238)
parseInts(d, st, a, argCount, env) ==
    IF arity(Len(a)) # "one" THEN Return(st, ArityError(Len(a)))
    ELSE IF Atoi(a[1]).ok
         THEN Bind(st, Append(st.result, Atoi(a[1]).val))
         ELSE Return(st, Error("bad integer value"))

\* case *[]float64 (lines 240-252)
parseFloats(d, st, a, argCount, env) ==
    IF arity(Len(a)) # "one" THEN Return(st, ArityError(Len(a)))
    ELSE IF ParseFloat(a[1]).ok
         THEN Bind(st, Append(st.result, ParseFloat(a[1]).val))
         ELSE Return(st, Error("bad floating point value"))

\* case *[]os.File (lines 254-278)
parseFiles(d, st, a, argCount, env) ==
    IF arity(Len(a)) # "one" THEN Return(st, ArityError(Len(a)))
    ELSE IF env.opens < 1
         THEN rollback(st, env)
         ELSE BindOpened(st, Append(st.result, Open(st)))

\* the type switch of parse (lines 136-282)
convert(d, st, a, argCount, env) ==
    CASE d.rtype = "help" -> Exit(st)
      [] d.rtype = "bool" -> parseBool(d, st, a, argCount, env)
      [] d.rtype = "int" -> parseInt(d, st, a, argCount, env)
      [] d.rtype = "float64" -> parseFloat(d, st, a, argCount, env)
      [] d.rtype = "string" -> parseString(d, st, a, argCount, env)
      [] d.rtype = "file" -> parseFile(d, st, a, argCount, env)
      [] d.rtype = "[]string" -> parseStrings(d, st, a, argCount, env)
      [] d.rtype = "[]int" -> parseInts(d, st, a, argCount, env)
      [] d.rtype = "[]float64" -> parseFloats(d, st, a, argCount, env)
      [] d.rtype = "[]file" -> parseFiles(d, st, a, argCount, env)
      [] OTHER -> Return(st, Error("unsupported type"))

\* arg.parse
parse(d, st, a, argCount, env) ==
    IF duplicate(d, st.parsed, argCount)
    THEN Return(st, Error("can only be present once"))
    ELSE IF d.validate /\ env.reject
    THEN Return(st, Error("validate"))
    ELSE convert(d, st, a, argCount, env)

(***************************************************************************)
(* arg.setDefault.  opts.Default is [type, val]: the Go type of the value  *)
(* and the value, with type "nil" for no default (or no opts at all).      *)
(***************************************************************************)
NoDefault == [type |-> "nil", val |-> 0]

\* "cannot use default type [%T] as type [...]"
TypeError == Error("cannot use default type")

\* "*o.result = v" and the final "return nil": parsed is not touched
Set(st, v) == [Return(st, NoErr) EXCEPT !.result = v]

\* the guard of line 339 without the test of o.parsed
wantsDefaultAlways(d, isParsed) == d.default.type # "nil"

\* the guard of line 339
wantsDefault(d, isParsed) == ~isParsed /\ d.default.type # "nil"

\* the cases whose default has the slot's own type (lines 341-360, 372-386)
defaultPlain(d, st) ==
    IF d.default.type = d.rtype THEN Set(st, d.default.val) ELSE Return(st, TypeError)

\* case *os.File (lines 361-371): the default is the name of the file
defaultFile(d, st, env) ==
    IF d.default.type = "string"
    THEN IF env.opens < 1
         THEN Return(st, Error("open"))
         ELSE [Set(st, Open(st)) EXCEPT !.nfd = Open(st), !.opened = {Open(st)}]
    ELSE Return(st, TypeError)

\* case *[]os.File (lines 387-414): the default is the list of names; the
\* first env.opens of them open, and a failure closes the handles of the
\* result slot, not those of the local list files
defaultFiles(d, st, env) ==
    IF d.default.type = "[]string"
    THEN LET names == d.default.val
             k == IF env.opens < Len(names) THEN env.opens ELSE Len(names)
             files == [i \in 1..k |-> st.nfd + i]
         IN  IF k < Len(names)
             THEN [rollback(st, env) EXCEPT !.nfd = st.nfd + k,
                                            !.opened = Range(files)]
             ELSE [Set(st, files) EXCEPT !.nfd = st.nfd + k,
                                         !.opened = Range(files)]
    ELSE Return(st, TypeError)

\* arg.setDefault
setDefault(d, st, env) ==
    IF wantsDefault(d, st.parsed)
    THEN CASE d.rtype \in {"bool", "int", "float64", "string",
                           "[]string", "[]int", "[]float64"} -> defaultPlain(d, st)
           [] d.rtype = "file" -> defaultFile(d, st, env)
           [] d.rtype = "[]file" -> defaultFiles(d, st, env)
           [] OTHER -> Return(st, NoErr)
    ELSE Return(st, NoErr)

(***************************************************************************)
(* The inputs: strings, token sequences and definitions.                   *)
(***************************************************************************)
\* the strings of length n over an alphabet
RECURSIVE Strings(_, _)
Strings(alphabet, n) ==
    IF n = 0 THEN {<<>>}
    ELSE {<<c>> \o s : c \in alphabet, s \in Strings(alphabet, n - 1)}

StringsUpTo(alphabet, n) == UNION {Strings(alphabet, k) : k \in 0..n}

\* the sequences of n strings over an alphabet with at most b characters in all
RECURSIVE Budgeted(_, _, _)
Budgeted(alphabet, n, b) ==
    IF n = 0 THEN {<<>>}
    ELSE UNION {{<<t>> \o s : s \in Budgeted(alphabet, n - 1, b - Len(t))} :
                    t \in StringsUpTo(alphabet, b)}

\* c repeated n times
RECURSIVE Rep(_, _)
Rep(c, n) == IF n = 0 THEN <<>> ELSE c \o Rep(c, n - 1)

\* the characters of the scanned tokens
Alphabet == {Dash, "a", "b", "h"}

\* tokens longer than the budget allows, placed first in an otherwise blank
\* sequence: the long help trigger, and a flag run in front of it
LongTokens == {HelpLong, <<Dash, "a">> \o Tail(HelpLong)}

ScanArgs ==
    Budgeted(Alphabet, NumArgs, MaxChars)
        \cup {[i \in 1..NumArgs |-> IF i = 1 THEN t ELSE <<>>] : t \in LongTokens}

\* the value tokens handed to parse: two integers, a float that is no
\* integer, and a string that is no number
ValueTokens == {<<"1">>, <<"1", "1">>, <<".", "1">>, <<".">>}

\* the captured value tokens of a parse call: none, or up to MaxValues of
\* them (parse reads the first one and the number of them)
ValueSeqs == {<<>>} \cup {Rep(<<t>>, n) : t \in ValueTokens, n \in 1..MaxValues}

\* the allowed values of a Selector
Selector == {<<"1">>}

RTypes == {"help", "bool", "int", "float64", "string", "file",
           "[]string", "[]int", "[]float64", "[]file", "other"}

\* the zero value a result slot starts with
Zero(rtype) ==
    CASE rtype = "bool" -> FALSE
      [] rtype \in {"int", "file", "help", "other"} -> 0
      [] rtype = "float64" -> <<0, 0>>
      [] OTHER -> <<>>

\* a default value of each Go type
DefaultOf(type) ==
    CASE type = "bool" -> [type |-> type, val |-> TRUE]
      [] type = "int" -> [type |-> type, val |-> 1]
      [] type = "float64" -> [type |-> type, val |-> <<1, 0>>]
      [] type = "string" -> [type |-> type, val |-> <<"1">>]
      [] type = "[]int" -> [type |-> type, val |-> <<1>>]
      [] type = "[]float64" -> [type |-> type, val |-> <<<<1, 0>>>>]

\* the Go type of the default that setDefault takes for a slot
OwnType(rtype) ==
    CASE rtype = "file" -> "string"
      [] rtype = "[]file" -> "[]string"
      [] OTHER -> rtype

\* the defaults a slot is declared with: none, one of the type setDefault takes
\* for the slot (a list of names: of n names), one of another type
DefaultKinds(rtype) ==
    [kind : {"none", "other"}, n : {0}]
        \cup CASE rtype \in {"[]string", "[]file"} -> [kind : {"own"}, n : 0..MaxDefault]
               [] rtype \in {"help", "other"} -> {}
               [] OTHER -> [kind : {"own"}, n : {1}]

Default(rtype, k) ==
    CASE k.kind = "none" -> NoDefault
      [] k.kind = "other" -> IF rtype = "int" THEN DefaultOf("string") ELSE DefaultOf("int")
      [] OTHER -> IF OwnType(rtype) = "[]string"
                  THEN [type |-> "[]string", val |-> Rep(<<<<"1">>>>, k.n)]
                  ELSE DefaultOf(OwnType(rtype))

Def(sname, lname, size, unique, rtype, validate, selector, default) ==
    [sname |-> sname, lname |-> lname, size |-> size, unique |-> unique,
     rtype |-> rtype, validate |-> validate, selector |-> selector,
     default |-> default]

\* a definition that scans, with a slot that plays no part
ScanDef(sname, lname, size) ==
    Def(sname, lname, size, FALSE, "bool", FALSE, {}, NoDefault)

\* the short and long names of the definitions that scan
ShortNames == {<<>>, <<"a">>, <<"h">>, <<Dash>>}

LongNames == {<<>>, <<"b">>}

\* the definitions that scan: every pair of names, combinable or not
ScanDefs ==
    {ScanDef(sn, ln, size) : sn \in ShortNames, ln \in LongNames, size \in {1, 2}}
        \ {ScanDef(<<>>, <<>>, size) : size \in {1, 2}}

\* the counters: combinable definitions with an integer slot
CountDefs ==
    {Def(sn, ln, 1, unique, "int", validate, {}, NoDefault) :
        sn \in ShortNames \ {<<>>}, ln \in LongNames,
        unique \in BOOLEAN, validate \in BOOLEAN}

(***************************************************************************)
(* The state: the definition o with its parsed flag and result slot, the   *)
(* token sequence args (origArgs as the caller passed it), the files, how  *)
(* the process ended (exited), whether a parse call has returned nil       *)
(* (succeeded), and the last call of check or reduce (last) and of parse   *)
(* or setDefault (call): what it was given, the state it found and what it *)
(* returned.                                                               *)
(***************************************************************************)
NoLast == [op |-> "none", pos |-> 0, ret |-> 0, before |-> <<>>]

NoCall == [op |-> "none", n |-> 0, cnt |-> 0, err |-> NoErr, result |-> 0,
           parsed |-> FALSE, succeeded |-> FALSE, opened |-> {}, failed |-> {}]

Start(d, a) ==
    /\ o = d
    /\ parsed = FALSE
    /\ result = Zero(d.rtype)
    /\ args = a
    /\ origArgs = a
    /\ exited = "no"
    /\ last = NoLast
    /\ call = NoCall
    /\ nfd = 0
    /\ closed = {}
    /\ succeeded = FALSE

InitScan == \E d \in ScanDefs, a \in ScanArgs : Start(d, a)

\* the sizes a definition of a result type has: parse reads size for an
\* integer slot alone (1 of a counter, 2 of an integer option)
Sizes(rtype) == IF rtype = "int" THEN {1, 2} ELSE IF rtype = "bool" THEN {1} ELSE {2}

\* the definitions that bind: every result type, with and without unique,
\* validator, selector and default
InitBind ==
    \E rtype \in RTypes, unique \in BOOLEAN, validate \in BOOLEAN :
        \E size \in Sizes(rtype),
           selector \in IF rtype = "string" THEN {{}, Selector} ELSE {{}},
           k \in DefaultKinds(rtype) :
            Start(Def(<<"a">>, <<>>, size, unique, rtype, validate, selector,
                      Default(rtype, k)), <<>>)

Init ==
    \E d \in CountDefs, n \in 1..MaxCount : Start(d, <<<<Dash>> \o Rep(d.sname, n)>>)

State == [result |-> result, parsed |-> parsed, nfd |-> nfd, closed |-> closed]

\* o.check((*args)[pos])
Check(pos) ==
    /\ exited = "no"
    /\ LET ret == check(o, args[pos])
       IN  /\ last' = [op |-> "check", pos |-> pos, ret |-> ret, before |-> args]
           /\ exited' = IF ret = HelpExit THEN "help" ELSE exited
    /\ UNCHANGED <<o, parsed, result, args, origArgs, call, nfd, closed, succeeded>>

\* o.reduce(pos, &args)
Reduce(pos) ==
    /\ exited = "no"
    /\ args' = reduce(o, pos, args)
    /\ last' = [op |-> "reduce", pos |-> pos, ret |-> 0, before |-> args]
    /\ exited' = IF reducePanics(o, pos, args) THEN "panic" ELSE exited
    /\ UNCHANGED <<o, parsed, result, origArgs, call, nfd, closed, succeeded>>

\* the outcome of a call written to the state
Returned(op, n, cnt, out) ==
    /\ out.nfd <= MaxFiles
    /\ result' = out.result
    /\ parsed' = out.parsed
    /\ nfd' = out.nfd
    /\ closed' = out.closed
    /\ exited' = IF out.exit THEN "helparg" ELSE exited
    /\ succeeded' = (succeeded \/ (op = "parse" /\ out.err = NoErr /\ ~out.exit))
    /\ call' = [op |-> op, n |-> n, cnt |-> cnt, err |-> out.err,
                result |-> result, parsed |-> parsed, succeeded |-> succeeded,
                opened |-> out.opened, failed |-> out.failed]
    /\ UNCHANGED <<o, args, origArgs, last>>

\* the environments that differ for a call on o
Envs(maxOpens) ==
    [reject : IF o.validate THEN BOOLEAN ELSE {FALSE},
     opens : IF o.rtype \in {"file", "[]file"} THEN 0..maxOpens ELSE {maxOpens},
     closeFail : IF o.rtype = "[]file" THEN SUBSET Range(result) ELSE {{}}]

\* o.parse(a, argCount)
Parse(a, argCount) ==
    /\ exited = "no"
    /\ \E env \in Envs(1) :
        LET out == parse(o, State, a, argCount, env)
        IN  /\ o.rtype = "int" /\ out.err = NoErr /\ a = <<>> => out.result <= MaxInt
            /\ o.rtype \in {"[]string", "[]int", "[]float64", "[]file"}
                  => Len(out.result) <= MaxList
            /\ Returned("parse", Len(a), argCount, out)

\* o.setDefault()
SetDefault ==
    /\ exited = "no"
    /\ \E env \in Envs(IF o.rtype = "[]file" /\ o.default.type = "[]string"
                       THEN Len(o.default.val) ELSE 1) :
        Returned("setDefault", 0, 0, setDefault(o, State, env))

NextScan ==
    \/ \E pos \in 1..Len(args) : Check(pos)
    \/ \E pos \in 1..Len(args) : Reduce(pos)

NextBind ==
    \/ \E a \in ValueSeqs, argCount \in 1..MaxCount : Parse(a, argCount)
    \/ SetDefault

Next == NextScan \/ NextBind

\* a counter definition, a token of its flag repeated, and every call on them
Spec == Init /\ [][Next]_vars

\* any definition's check and reduce on any token sequence
SpecScan == InitScan /\ [][NextScan]_vars

\* any definition's parse and setDefault
SpecBind == InitBind /\ [][NextBind]_vars

(***************************************************************************)
(* Properties of check, reduce, parse and setDefault.                      *)
(***************************************************************************)
\* the token the last check or reduce was called on
Token == last.before[last.pos]

\* whether t is a dash followed by n >= 1 copies of the one-character name c
IsRun(t, c) == Len(c) = 1 /\ Len(t) >= 2 /\ t = <<Dash>> \o Rep(c, Len(t) - 1)

SlotKept == result = call.result /\ parsed = call.parsed

ListTypes == {"[]string", "[]int", "[]float64", "[]file"}

OneValueTypes == {"float64", "string", "file"} \cup ListTypes

\* whether the last call was parse and went past the uniqueness test and the
\* validator into the type switch, and returned
Converted ==
    /\ call.op = "parse"
    /\ exited = "no"
    /\ call.err.kind \notin {"can only be present once", "validate"}

\* C1, as claimed, for short names that are no dash and calls of parse that
\* return no error: for every combinable definition (size 1) with a
\* one-character short name c and every N >= 1, check on the token "-" c^N
\* returns N, and parse with no value tokens and a count on an integer slot
\* adds the count to the slot.
C1_AsClaimed ==
    /\ last.op = "check" /\ o.size = 1 /\ IsRun(Token, o.sname)
          /\ o.sname # <<Dash>>
          => last.ret = Len(Token) - 1
    /\ call.op = "parse" /\ o.size = 1 /\ o.rtype = "int" /\ call.n = 0
          /\ call.err = NoErr
          => result = call.result + call.cnt

\* C1, amended: check on the token "-" c^N returns N when c is not a dash and
\* the token is not the help trigger "-h"; parse with no value tokens on the
\* integer slot of a size-1 definition adds the count when it returns no
\* error, returns no error unless the definition is unique (and the count is
\* above 1 or parsed is set) or its validator rejects, and with an error
\* leaves the slot as it was.
C1_Counting ==
    /\ last.op = "check" /\ o.size = 1 /\ IsRun(Token, o.sname)
          /\ o.sname # <<Dash>> /\ Token # HelpShort
          => last.ret = Len(Token) - 1
    /\ call.op = "parse" /\ o.size = 1 /\ o.rtype = "int" /\ call.n = 0
          => /\ call.err = NoErr => result = call.result + call.cnt
             /\ call.err # NoErr => SlotKept
             /\ call.err # NoErr =>
                    \/ o.validate /\ call.err = Error("validate")
                    \/ /\ o.unique /\ (call.parsed \/ call.cnt > 1)
                       /\ call.err = Error("can only be present once")

\* a check of "-aa" has returned 2 and a parse with that count has raised a
\* counter that stood at 1 to 3
C1_Witness ==
    /\ last.op = "check" /\ Token = <<Dash, "a", "a">> /\ last.ret = 2
    /\ call.op = "parse" /\ call.n = 0 /\ call.cnt = 2 /\ call.err = NoErr
    /\ call.result = 1 /\ result = 3

\* C2: parse on a unique definition returns the duplicate-option error when
\* the count is above 1 and when an earlier parse call returned no error, and
\* then leaves the result slot and the parsed flag as they were.
C2_Duplicate ==
    call.op = "parse" /\ o.unique /\ (call.cnt > 1 \/ call.succeeded)
        => call.err = Error("can only be present once") /\ SlotKept

\* a second parse with count 1 on a unique definition was refused and the
\* value of the first is still in the slot
C2_Witness ==
    /\ call.op = "parse" /\ o.unique /\ call.cnt = 1 /\ call.succeeded
    /\ call.err = Error("can only be present once")
    /\ o.rtype = "string" /\ result = <<"1">>

\* C3: a parse call on a file-list slot whose open fails leaves the slot
\* empty, has called Close on every handle the slot held, and returns the
\* open failure together with exactly the Close failures, in slot order.
C3_Rollback ==
    call.op = "parse" /\ o.rtype = "[]file" /\ call.err.kind = "open"
        => /\ result = <<>>
           /\ Range(call.result) \subseteq closed
           /\ call.failed \subseteq Range(call.result)
           /\ Range(call.err.errs) = call.failed
           /\ \A i, j \in 1..Len(call.err.errs) :
                  i < j => call.err.errs[i] < call.err.errs[j]
           /\ parsed = call.parsed

\* two handles were held, the third open failed, both were closed and the
\* Close of the second failed and is reported
C3_Witness ==
    /\ call.op = "parse" /\ o.rtype = "[]file" /\ call.err.kind = "open"
    /\ call.result = <<1, 2>> /\ call.err.errs = <<2>>
    /\ result = <<>> /\ closed = {1, 2}

\* C4, as claimed: when setDefault fails to open a name of a file-list
\* default, every handle it opened earlier in the call has been closed and
\* the slot is empty.
C4_AsClaimed ==
    call.op = "setDefault" /\ o.rtype = "[]file" /\ call.err.kind = "open"
        => call.opened \subseteq closed /\ result = <<>>

\* C5: with parsed set, setDefault returns no error, opens nothing and
\* leaves the result slot and the parsed flag as they were, whatever the
\* result type and the declared default.
C5_DefaultSkipped ==
    call.op = "setDefault" /\ call.parsed
        => call.err = NoErr /\ SlotKept /\ call.opened = {}

\* setDefault has run on a parsed definition whose default has the wrong
\* type and would have changed the slot
C5_Witness ==
    /\ call.op = "setDefault" /\ call.parsed /\ call.err = NoErr
    /\ o.rtype = "[]string" /\ o.default.type = "int" /\ result = <<<<".">>>>

\* C8: parsed never goes from true to false; a parse call that returns no
\* error leaves it true, one that returns an error leaves it as it was, and
\* setDefault leaves it as it was.
C8_ParsedFlag ==
    /\ call.op # "none" /\ call.parsed => parsed
    /\ call.op = "parse" /\ exited = "no"
          => IF call.err = NoErr THEN parsed ELSE parsed = call.parsed
    /\ call.op = "setDefault" => parsed = call.parsed

\* a parse call has returned no error and turned parsed from false to true
C8_Witness ==
    call.op = "parse" /\ call.err = NoErr /\ ~call.parsed /\ parsed /\ exited = "no"

\* C9, as claimed: parse returns an error and leaves the slot as it was when
\* a boolean slot is given one or more value tokens, and when a slot of a
\* one-value type is given none or more than one; a boolean slot given none
\* is set to true.
C9_AsClaimed ==
    Converted =>
        /\ o.rtype = "bool" /\ call.n = 0 => call.err = NoErr /\ result = TRUE
        /\ o.rtype = "bool" /\ call.n >= 1 => call.err # NoErr /\ SlotKept
        /\ o.rtype \in OneValueTypes /\ call.n # 1 => call.err # NoErr /\ SlotKept

\* C9, amended: past the uniqueness test and the validator, a boolean slot
\* is set to true whatever the number of value tokens; a slot of a one-value
\* type given none, and an integer slot of a definition of size above 1
\* given none, get the "must be followed by" error; both given more than one
\* get the "too many arguments" error; the integer slot of a size-1
\* definition given none takes the count; every such error leaves the slot
\* and the parsed flag as they were.
C9_Arity ==
    Converted =>
        /\ o.rtype = "bool" => call.err = NoErr /\ result = TRUE
        /\ o.rtype \in OneValueTypes \/ (o.rtype = "int" /\ o.size > 1)
              => (call.n < 1 => call.err = Error("must be followed by") /\ SlotKept)
        /\ o.rtype \in OneValueTypes \cup {"int"}
              => (call.n > 1 =>
                      call.err = Error("followed by too many arguments") /\ SlotKept)
        /\ o.rtype = "int" /\ o.size = 1 /\ call.n < 1
              => call.err = NoErr /\ result = call.result + call.cnt

\* a parse call with two value tokens on a string slot was refused and the
\* value of an earlier call is still in the slot
C9_Witness ==
    /\ Converted /\ o.rtype = "string" /\ call.n = 2
    /\ call.err = Error("followed by too many arguments")
    /\ call.parsed /\ result = <<"1">>

\* C6, as claimed: reduce at a position with position + size - 1 inside the
\* sequence, called again, changes no token and raises no error.
C6_AsClaimed ==
    last.op = "reduce" /\ ~Overruns(last.before, last.pos, o.size)
        => reduce(o, last.pos, args) = args /\ ~reducePanics(o, last.pos, args)

\* the letters of the scanned tokens: the short names that are no dash
Letters == Alphabet \ {Dash}

\* C7, as claimed, for short characters that are letters and a token that
\* check returns on: a combinable short-name match of reduce removes the
\* occurrences of the short character from the token and nothing else: check
\* of every combinable definition with another short character returns for
\* the token what it returned before, the token is the empty string exactly
\* when the removal leaves a bare dash, and no other position changes.
C7_AsClaimed ==
    /\ last.op = "reduce" /\ o.size = 1 /\ o.sname \in Strings(Letters, 1)
    /\ ~IsHelp(Token)
    /\ ShortForm(o, Token) /\ Contains(From(Token, 1), o.sname)
    => /\ \A c \in Letters \ Range(o.sname), ln \in LongNames :
              check(ScanDef(<<c>>, ln, 1), args[last.pos])
                  = check(ScanDef(<<c>>, ln, 1), Token)
       /\ args[last.pos] = <<>> <=> Remove(Token, o.sname) = <<Dash>>
       /\ \A i \in 1..Len(args) : i # last.pos => args[i] = last.before[i]

\* C10, as claimed: check exits with the help text only if a token of the
\* sequence as the caller passed it is "-h" or "--help".
C10_AsClaimed ==
    exited = "help" => \E i \in 1..Len(origArgs) : IsHelp(origArgs[i])

====
